---- MODULE Spec2Model ----
(***************************************************************************)
(* mt-downloader (src/src/main.rs): a bounded-concurrency downloader.      *)
(* main admits one spawned task per URL through a counting semaphore; each *)
(* task parses its URL, picks an output path, and runs download_once under *)
(* download_with_retries with exponential backoff.                         *)
(*                                                                         *)
(* File names are sequences of one-character strings so that file_stem,    *)
(* extension and the "stem (i).ext" formatting are computed, not assumed.  *)
(* u64 values are kept as [m, e] meaning m * 2^e (m odd, or m = 0), which  *)
(* keeps the full 64-bit width of the delay computation exact.             *)
(***************************************************************************)
EXTENDS Integers, Sequences, FiniteSets, TLC

(***************************************************************************)
(* Bounds of the model                                                     *)
(***************************************************************************)
MaxConcurrency == 2   \* largest --concurrency tried (0 is tried as well)
MaxRetries == 3       \* largest --retries tried (0 is tried as well)

(***************************************************************************)
(* Program constants                                                       *)
(***************************************************************************)
U64Bits == 64         \* width of the delay arithmetic (1u64, backoff_ms: u64)
ProbeLimit == 9999    \* for i in 1..=9999

(***************************************************************************)
(* Inputs                                                                  *)
(***************************************************************************)
\* file names, as sequences of characters
NameATxt == <<"a", ".", "t", "x", "t">>
NameDownload == <<"d", "o", "w", "n", "l", "o", "a", "d">>
NameDir == <<"x">>
NameB == <<"b">>
EmptySeg == <<>>

\* raw URL strings: a scheme (empty when the string has none) and the
\* segments of the path
UrlA == [scheme |-> "https", segs |-> <<NameDir, NameATxt>>]   \* https://host/x/a.txt
UrlRoot == [scheme |-> "https", segs |-> <<EmptySeg>>]         \* https://host/
UrlBad == [scheme |-> "", segs |-> <<NameATxt>>]               \* a.txt (no scheme)
RawUrls == {UrlA, UrlRoot, UrlBad}
UrlB == [scheme |-> "https", segs |-> <<NameB>>]               \* https://host/b

\* the response bodies of the server, as numbers of chunks of the byte
\* stream: two chunks for UrlB, an empty body for the other URLs
BodyChunks(raw) == IF raw = UrlB THEN 2 ELSE 0

\* u64 values m * 2^e
U64Zero == [m |-> 0, e |-> 0]
Backoff500 == [m |-> 125, e |-> 2]            \* the default, 500 ms
BackoffHuge == [m |-> 1, e |-> U64Bits - 1]   \* 2^63 ms
BackoffValues == {Backoff500, BackoffHuge}

\* the least --retries with which a failed attempt shifts by the full width
ShiftRetries == U64Bits + 2

\* the <<retries, backoff_ms>> settings tried: the small retry counts with
\* each backoff, and the long run of ShiftRetries attempts without backoff
RetrySettings == ((0..MaxRetries) \X BackoffValues) \cup {<<ShiftRetries, U64Zero>>}

\* what the output directory holds before the run
InitialFiles == {{}, {NameATxt, NameDownload}}

RECURSIVE SeqsUpTo(_, _)
SeqsUpTo(S, n) ==
    IF n = 0 THEN {<<>>}
    ELSE LET shorter == SeqsUpTo(S, n - 1)
         IN  shorter \cup {Append(s, x) : s \in {t \in shorter : Len(t) = n - 1}, x \in S}

\* the URL lists tried: every list of at most two URLs, one of three (two
\* requests for the same file, then a malformed one), and one and two
\* requests for the file with a body of chunks
UrlLists == SeqsUpTo(RawUrls, 2) \cup {<<UrlA, UrlA, UrlBad>>} \cup {<<UrlB>>, <<UrlB, UrlB>>}

(***************************************************************************)
(* State                                                                   *)
(***************************************************************************)
VARIABLES
    urls,             \* cli.urls
    concurrency,      \* cli.concurrency
    retries,          \* cli.retries
    backoff_ms,       \* cli.backoff_ms
    overwrite,        \* cli.overwrite
    overflow_checks,  \* the build profile: TRUE for a build with overflow checks
    plan,             \* per request: the attempt on which the transport first succeeds, 0 = never
    fs0,              \* names of the files in the output directory before the run
    fs,               \* names of the files that exist in the output directory
    content,          \* per existing file: its chunks, in file order
    mainpc,           \* where main is
    idx,              \* the position of `raw` in cli.urls in the admission loop
    joined,           \* how many handles main has awaited
    sem,              \* free permits of the semaphore
    tpc,              \* where each spawned task is
    permit,           \* whether the task owns its permit (_p)
    path,             \* the task's output path
    off,              \* the position of the task's open file: chunks written by this attempt
    attempt,          \* the loop variable of download_with_retries
    last_err,         \* last_err of download_with_retries
    invoked,          \* history: calls of download_once per request
    sleeps,           \* history: delays slept per request
    reports,          \* history: outcome lines printed per request
    released          \* history: permits dropped per request

cfgvars == <<urls, concurrency, retries, backoff_ms, overwrite, overflow_checks, plan, fs0>>
mainvars == <<mainpc, idx, joined>>
taskvars == <<tpc, permit, path, off, attempt, last_err>>
histvars == <<invoked, sleeps, reports, released>>
vars == <<cfgvars, fs, content, mainvars, sem, taskvars, histvars>>

Requests == 1..Len(urls)

\* file contents: a cell is a chunk <<request, attempt, number>>, a cell of
\* the file as it was before the run, or a cell of a gap that a write past
\* the end leaves behind
Chunk(i, a, k) == <<i, a, k>>
PriorCell == <<0, 0, 1>>
GapCell == <<0, 0, 0>>
PriorContent == <<PriorCell, PriorCell>>

\* write_all at position o of a file with cells c
WriteAt(c, o, x) ==
    IF o < Len(c)
    THEN [c EXCEPT ![o + 1] = x]
    ELSE c \o [k \in 1..(o - Len(c)) |-> GapCell] \o <<x>>
NoPath == <<>>
NoErr == 0   \* last_err = None; an error is named by the attempt that raised it

(***************************************************************************)
(* Pure functions                                                          *)
(***************************************************************************)
\* Url::parse: a string without a scheme is a relative URL, which is an error
UrlParseOk(raw) == raw.scheme # ""

\* file_name_from_url: the last path segment, "download" when it is empty
file_name_from_url(url) ==
    LET segs == url.segs
        last == IF Len(segs) = 0 THEN EmptySeg ELSE segs[Len(segs)]
    IN  IF last # EmptySeg THEN last ELSE NameDownload

\* position of the last "." of a name, 0 when there is none
LastDot(name) ==
    LET dots == {i \in 1..Len(name) : name[i] = "."}
    IN  IF dots = {} THEN 0 ELSE CHOOSE i \in dots : \A j \in dots : j <= i

\* Path::file_stem: the name up to its last ".", the whole name when the
\* only "." is the first character or there is none
file_stem(name) ==
    IF LastDot(name) <= 1 THEN name ELSE SubSeq(name, 1, LastDot(name) - 1)

\* Path::extension, with unwrap_or(""): what follows the last "."
extension(name) ==
    IF LastDot(name) <= 1 THEN <<>> ELSE SubSeq(name, LastDot(name) + 1, Len(name))

DigitChars == <<"0", "1", "2", "3", "4", "5", "6", "7", "8", "9">>

\* format!("{i}")
RECURSIVE Decimal(_)
Decimal(n) ==
    IF n < 10 THEN <<DigitChars[n + 1]>>
    ELSE Decimal(n \div 10) \o <<DigitChars[(n % 10) + 1]>>

\* format!("{stem} ({i})") or format!("{stem} ({i}).{ext}")
Candidate(base, i) ==
    LET stem == file_stem(base)
        ext == extension(base)
        numbered == stem \o <<" ", "(">> \o Decimal(i) \o <<")">>
    IN  IF ext = <<>> THEN numbered ELSE numbered \o <<".">> \o ext

\* the probing loop of pick_output_path, from candidate i on
RECURSIVE Probe(_, _, _)
Probe(files, base, i) ==
    IF i > ProbeLimit THEN base
    ELSE IF Candidate(base, i) \notin files THEN Candidate(base, i)
    ELSE Probe(files, base, i + 1)

\* a resolver whose numbering starts at 2
PickSkippingFirst(files, base, ow) ==
    IF ow \/ base \notin files THEN base ELSE Probe(files, base, 2)

\* a resolver that numbers the name whenever it exists, overwrite or not
PickIgnoringOverwrite(files, base, ow) ==
    IF base \notin files THEN base ELSE Probe(files, base, 1)

pick_output_path(files, base, ow) ==
    IF ow \/ base \notin files THEN base ELSE Probe(files, base, 1)

\* number of bits of a positive integer
RECURSIVE BitLen(_)
BitLen(n) == IF n = 0 THEN 0 ELSE 1 + BitLen(n \div 2)

RECURSIVE Pow2(_)
Pow2(k) == IF k = 0 THEN 1 ELSE 2 * Pow2(k - 1)

\* attempt - 1 as the shift amount of 1u64 << (attempt - 1)
ShiftAmount(att) == att - 1

\* the shift overflows when the amount is not below the width
ShlOverflows(s) == s >= U64Bits

\* without overflow checks the amount is masked to the width
WrappingShl(s) == s % U64Bits

\* backoff_ms * 2^s overflows when the product needs more than 64 bits
MulOverflows(a, s) == a.m # 0 /\ BitLen(a.m) + a.e + s > U64Bits

\* backoff_ms * 2^s modulo 2^64
WrappingMul(a, s) ==
    IF a.m = 0 \/ a.e + s >= U64Bits THEN U64Zero
    ELSE LET k == U64Bits - (a.e + s)
         IN  [m |-> IF k >= BitLen(a.m) THEN a.m ELSE a.m % Pow2(k), e |-> a.e + s]

\* whether computing the delay of this attempt panics in this build
DelayPanics(base, att, checks) ==
    checks /\ (ShlOverflows(ShiftAmount(att))
               \/ MulOverflows(base, WrappingShl(ShiftAmount(att))))

\* let delay = backoff_ms * (1u64 << (attempt - 1))
Delay(base, att) == WrappingMul(base, WrappingShl(ShiftAmount(att)))

\* the retry count taken as it is
RetriesUnclamped(r) == r

\* retries.max(1)
MaxAttempts(r) == IF r < 1 THEN 1 ELSE r

\* the scripts of the transport tried for one request, 0 = it never succeeds:
\* every first success within the attempts allowed; in the long run only
\* a success on the last attempt
Plans(r) == IF r > MaxRetries THEN {0, r} ELSE 0..MaxAttempts(r)

(***************************************************************************)
(* Initial state: the command line, the directory, the transport's script  *)
(***************************************************************************)
Init ==
    /\ urls \in UrlLists
    /\ concurrency \in 0..MaxConcurrency
    /\ \E rs \in RetrySettings : retries = rs[1] /\ backoff_ms = rs[2]
    /\ retries > MaxRetries => Len(urls) = 1   \* the long run is tried for one request
    /\ overwrite \in BOOLEAN
    /\ overflow_checks \in BOOLEAN
    \* the build profile makes a difference only where a delay can overflow
    /\ overflow_checks => (backoff_ms = BackoffHuge \/ retries > MaxRetries)
    /\ plan \in [1..Len(urls) -> Plans(retries)]
    /\ \A i \in 1..Len(urls) : ~UrlParseOk(urls[i]) => plan[i] = 0
    /\ fs0 \in InitialFiles
    /\ fs = fs0
    \* bodies of several chunks are tried with the default backoff
    /\ (\E i \in 1..Len(urls) : BodyChunks(urls[i]) > 0) =>
           /\ backoff_ms = Backoff500
           /\ fs0 = {}
    /\ content = [f \in fs0 |-> PriorContent]
    /\ mainpc = "start"
    /\ idx = 1
    /\ joined = 0
    /\ sem = 0
    /\ tpc = [i \in 1..Len(urls) |-> "unspawned"]
    /\ permit = [i \in 1..Len(urls) |-> FALSE]
    /\ path = [i \in 1..Len(urls) |-> NoPath]
    /\ off = [i \in 1..Len(urls) |-> 0]
    /\ attempt = [i \in 1..Len(urls) |-> 0]
    /\ last_err = [i \in 1..Len(urls) |-> NoErr]
    /\ invoked = [i \in 1..Len(urls) |-> 0]
    /\ sleeps = [i \in 1..Len(urls) |-> <<>>]
    /\ reports = [i \in 1..Len(urls) |-> <<>>]
    /\ released = [i \in 1..Len(urls) |-> 0]

(***************************************************************************)
(* main                                                                    *)
(***************************************************************************)
\* if cli.urls.is_empty() { std::process::exit(2) }
NoUrls ==
    /\ mainpc = "start"
    /\ urls = <<>>
    /\ mainpc' = "exit2"
    /\ UNCHANGED <<cfgvars, fs, content, idx, joined, sem, taskvars, histvars>>

\* fs::create_dir_all(&cli.out) fails: main returns the error
CreateDirFails ==
    /\ mainpc = "start"
    /\ urls # <<>>
    /\ mainpc' = "fatal"
    /\ UNCHANGED <<cfgvars, fs, content, idx, joined, sem, taskvars, histvars>>

\* the directory exists; Semaphore::new(cli.concurrency)
Setup ==
    /\ mainpc = "start"
    /\ urls # <<>>
    /\ mainpc' = "loop"
    /\ sem' = concurrency
    /\ UNCHANGED <<cfgvars, fs, content, idx, joined, taskvars, histvars>>

\* a gate that admits without looking at the free permits
AcquireUngated == TRUE

\* sem.clone().acquire_owned().await completes only when a permit is free
AcquireReady == sem > 0

\* one iteration of the admission loop: acquire a permit, spawn the task
\* that owns it, push its handle
AcquireAndSpawn ==
    /\ mainpc = "loop"
    /\ idx <= Len(urls)
    /\ AcquireReady
    /\ sem' = sem - 1
    /\ permit' = [permit EXCEPT ![idx] = TRUE]
    /\ tpc' = [tpc EXCEPT ![idx] = "spawned"]
    /\ idx' = idx + 1
    /\ UNCHANGED <<cfgvars, fs, content, mainpc, joined, path, off, attempt, last_err, histvars>>

\* the admission loop has gone through cli.urls
EndLoop ==
    /\ mainpc = "loop"
    /\ idx > Len(urls)
    /\ mainpc' = "join"
    /\ UNCHANGED <<cfgvars, fs, content, idx, joined, sem, taskvars, histvars>>

\* a main that does not wait for its handles
HandleDetached(h) == TRUE

\* a main that stops waiting as soon as some request has failed
HandleFinishedOrRunFailed(h) ==
    \/ tpc[h] \in {"done", "panicked"}
    \/ \E i \in 1..Len(urls) : last_err[i] # NoErr /\ tpc[i] = "done"

\* h.await completes when the task has returned or panicked
HandleFinished(h) == tpc[h] \in {"done", "panicked"}

\* for h in handles { let _ = h.await; }
Join ==
    /\ mainpc = "join"
    /\ joined < Len(urls)
    /\ HandleFinished(joined + 1)
    /\ joined' = joined + 1
    /\ UNCHANGED <<cfgvars, fs, content, mainpc, idx, sem, taskvars, histvars>>

\* Ok(())
Return ==
    /\ mainpc = "join"
    /\ joined = Len(urls)
    /\ mainpc' = "done"
    /\ UNCHANGED <<cfgvars, fs, content, idx, joined, sem, taskvars, histvars>>

(***************************************************************************)
(* The spawned task                                                        *)
(***************************************************************************)
\* a task that forgets its permit instead of dropping it
LeakPermit(i) ==
    /\ sem' = sem
    /\ permit' = [permit EXCEPT ![i] = FALSE]
    /\ released' = released

\* _p goes out of scope: the permit returns to the semaphore
DropPermit(i) ==
    /\ sem' = sem + 1
    /\ permit' = [permit EXCEPT ![i] = FALSE]
    /\ released' = [released EXCEPT ![i] = @ + 1]

\* eprintln!("Invalid URL ..."), eprintln!("FAILED ..."), println!("saved -> ...")
Report(i, line) == reports' = [reports EXCEPT ![i] = Append(@, line)]

\* Url::parse fails: report and return
TaskInvalidUrl(i) ==
    /\ tpc[i] = "spawned"
    /\ ~UrlParseOk(urls[i])
    /\ Report(i, [kind |-> "invalid", url |-> urls[i]])
    /\ DropPermit(i)
    /\ tpc' = [tpc EXCEPT ![i] = "done"]
    /\ UNCHANGED <<cfgvars, fs, content, mainvars, path, off, attempt, last_err, invoked, sleeps>>

\* the URL parses: name the file, pick the path, enter download_with_retries
\* and, the range 1..=retries.max(1) not being empty, call download_once for
\* attempt 1; an empty range would end in Err("unknown error")
TaskResolve(i) ==
    /\ tpc[i] = "spawned"
    /\ UrlParseOk(urls[i])
    /\ path' = [path EXCEPT ![i] = pick_output_path(fs, file_name_from_url(urls[i]), overwrite)]
    /\ IF 1 <= MaxAttempts(retries)
       THEN /\ attempt' = [attempt EXCEPT ![i] = 1]
            /\ invoked' = [invoked EXCEPT ![i] = @ + 1]
            /\ tpc' = [tpc EXCEPT ![i] = "send"]
            /\ UNCHANGED <<sem, permit, reports, released>>
       ELSE /\ tpc' = [tpc EXCEPT ![i] = "done"]
            /\ Report(i, [kind |-> "failed", url |-> urls[i], err |-> NoErr])
            /\ DropPermit(i)
            /\ UNCHANGED <<attempt, invoked>>
    /\ UNCHANGED <<cfgvars, fs, content, mainvars, off, last_err, sleeps>>

\* the Err arm of download_with_retries for error e of the current attempt,
\* up to the next await or the return
Failed(i, e) ==
    /\ last_err' = [last_err EXCEPT ![i] = e]
    /\ IF attempt[i] < retries
       THEN IF DelayPanics(backoff_ms, attempt[i], overflow_checks)
            THEN \* the task unwinds; its permit is dropped, nothing is printed
                 /\ tpc' = [tpc EXCEPT ![i] = "panicked"]
                 /\ DropPermit(i)
                 /\ UNCHANGED <<attempt, invoked, sleeps, reports>>
            ELSE /\ tpc' = [tpc EXCEPT ![i] = "sleep"]
                 /\ sleeps' = [sleeps EXCEPT ![i] = Append(@, Delay(backoff_ms, attempt[i]))]
                 /\ UNCHANGED <<attempt, invoked, reports, sem, permit, released>>
       ELSE IF attempt[i] < MaxAttempts(retries)
            THEN \* next iteration without a sleep
                 /\ tpc' = [tpc EXCEPT ![i] = "send"]
                 /\ attempt' = [attempt EXCEPT ![i] = @ + 1]
                 /\ invoked' = [invoked EXCEPT ![i] = @ + 1]
                 /\ UNCHANGED <<sleeps, reports, sem, permit, released>>
            ELSE \* the loop is over: Err(last_err), "FAILED", return
                 /\ tpc' = [tpc EXCEPT ![i] = "done"]
                 /\ Report(i, [kind |-> "failed", url |-> urls[i], err |-> e])
                 /\ DropPermit(i)
                 /\ UNCHANGED <<attempt, invoked, sleeps>>

\* whether the transport lets the current attempt of request i succeed
Succeeds(i) == plan[i] = attempt[i]

\* client.get(url).send() fails: "request failed: {url}"
RequestFails(i) ==
    /\ tpc[i] = "send"
    /\ ~Succeeds(i)
    /\ Failed(i, attempt[i])
    /\ UNCHANGED <<cfgvars, fs, content, mainvars, path, off>>

\* a status check that comes after File::create
BadStatusAfterCreate(i) ==
    /\ tpc[i] = "send"
    /\ ~Succeeds(i)
    /\ Failed(i, attempt[i])
    /\ fs' = fs \cup {path[i]}
    /\ content' = [f \in fs \cup {path[i]} |-> IF f = path[i] THEN <<>> ELSE content[f]]
    /\ UNCHANGED <<cfgvars, mainvars, path, off>>

\* the response's status is not a success: "non-success status ..."
BadStatus(i) ==
    /\ tpc[i] = "send"
    /\ ~Succeeds(i)
    /\ Failed(i, attempt[i])
    /\ UNCHANGED <<cfgvars, fs, content, mainvars, path, off>>

\* a response with a success status arrives
SendOk(i) ==
    /\ tpc[i] = "send"
    /\ tpc' = [tpc EXCEPT ![i] = "create"]
    /\ UNCHANGED <<cfgvars, fs, content, mainvars, sem, permit, path, off, attempt, last_err, histvars>>

\* fs::File::create(path) fails
CreateFails(i) ==
    /\ tpc[i] = "create"
    /\ ~Succeeds(i)
    /\ Failed(i, attempt[i])
    /\ UNCHANGED <<cfgvars, fs, content, mainvars, path, off>>

\* fs::File::create(path): the file exists from here on
CreateOk(i) ==
    /\ tpc[i] = "create"
    /\ fs' = fs \cup {path[i]}
    /\ content' = [f \in fs \cup {path[i]} |-> IF f = path[i] THEN <<>> ELSE content[f]]
    /\ off' = [off EXCEPT ![i] = 0]
    /\ tpc' = [tpc EXCEPT ![i] = "stream"]
    /\ UNCHANGED <<cfgvars, mainvars, sem, permit, path, attempt, last_err, histvars>>

\* while let Some(chunk) = stream.next().await { file.write_all(&chunk?) }:
\* the next chunk arrives and is written at the position of this task's file
WriteChunk(i) ==
    /\ tpc[i] = "stream"
    /\ off[i] < BodyChunks(urls[i])
    /\ content' = [content EXCEPT ![path[i]] = WriteAt(@, off[i], Chunk(i, attempt[i], off[i] + 1))]
    /\ off' = [off EXCEPT ![i] = @ + 1]
    /\ UNCHANGED <<cfgvars, fs, mainvars, sem, tpc, permit, path, attempt, last_err, histvars>>

\* a chunk, a write or the flush fails; the file is closed as it is
StreamFails(i) ==
    /\ tpc[i] = "stream"
    /\ ~Succeeds(i)
    /\ Failed(i, attempt[i])
    /\ off' = [off EXCEPT ![i] = 0]
    /\ UNCHANGED <<cfgvars, fs, content, mainvars, path>>

\* the stream ends, the file is flushed: Ok(()), "saved -> path", return
StreamOk(i) ==
    /\ tpc[i] = "stream"
    /\ Succeeds(i)
    /\ off[i] = BodyChunks(urls[i])
    /\ Report(i, [kind |-> "saved", path |-> path[i]])
    /\ DropPermit(i)
    /\ tpc' = [tpc EXCEPT ![i] = "done"]
    /\ off' = [off EXCEPT ![i] = 0]
    /\ UNCHANGED <<cfgvars, fs, content, mainvars, path, attempt, last_err, invoked, sleeps>>

\* a retry that picks its path anew
ReResolvedPath(i) == pick_output_path(fs, file_name_from_url(urls[i]), overwrite)

\* download_once(client, url, path): every iteration passes the path that
\* download_with_retries was given
RetryPath(i) == path[i]

\* tokio::time::sleep(delay) is over: the next iteration calls download_once
Wake(i) ==
    /\ tpc[i] = "sleep"
    /\ IF attempt[i] < MaxAttempts(retries)
       THEN /\ tpc' = [tpc EXCEPT ![i] = "send"]
            /\ attempt' = [attempt EXCEPT ![i] = @ + 1]
            /\ invoked' = [invoked EXCEPT ![i] = @ + 1]
            /\ path' = [path EXCEPT ![i] = RetryPath(i)]
            /\ UNCHANGED <<reports, sem, permit, released>>
       ELSE /\ tpc' = [tpc EXCEPT ![i] = "done"]
            /\ Report(i, [kind |-> "failed", url |-> urls[i], err |-> last_err[i]])
            /\ DropPermit(i)
            /\ UNCHANGED <<attempt, invoked, path>>
    /\ UNCHANGED <<cfgvars, fs, content, mainvars, off, last_err, sleeps>>

Next ==
    \/ NoUrls
    \/ CreateDirFails
    \/ Setup
    \/ AcquireAndSpawn
    \/ EndLoop
    \/ Join
    \/ Return
    \/ \E i \in Requests : TaskInvalidUrl(i)
    \/ \E i \in Requests : TaskResolve(i)
    \/ \E i \in Requests : RequestFails(i)
    \/ \E i \in Requests : BadStatus(i)
    \/ \E i \in Requests : SendOk(i)
    \/ \E i \in Requests : CreateFails(i)
    \/ \E i \in Requests : CreateOk(i)
    \/ \E i \in Requests : WriteChunk(i)
    \/ \E i \in Requests : StreamFails(i)
    \/ \E i \in Requests : StreamOk(i)
    \/ \E i \in Requests : Wake(i)

Spec == Init /\ [][Next]_vars

\* the runtime keeps polling ready tasks and main: no enabled step waits forever
FairSpec == Spec /\ WF_vars(Next)

(***************************************************************************)
(* Properties                                                              *)
(***************************************************************************)
HeldPermits == {i \in Requests : permit[i]}
Concluded(i) == tpc[i] \in {"done", "panicked"}
Working(i) == tpc[i] \in {"spawned", "send", "create", "stream", "sleep"}
Valid(i) == UrlParseOk(urls[i])
Saved(i) == \E n \in 1..Len(reports[i]) : reports[i][n].kind = "saved"
FailedOut(i) == \E n \in 1..Len(reports[i]) : reports[i][n].kind = "failed"
InvalidOut(i) == \E n \in 1..Len(reports[i]) : reports[i][n].kind = "invalid"

\* C1: with a concurrency limit of at least 1, the number of tasks that hold
\* a permit never exceeds the limit.
C1_PermitsWithinLimit ==
    concurrency >= 1 => Cardinality(HeldPermits) <= concurrency

\* C1 witness: the gate of size 2 is full with a third request waiting in
\* main while one of the holders sleeps in backoff.
C1_GateFull ==
    /\ concurrency = 2
    /\ Cardinality(HeldPermits) = 2
    /\ mainpc = "loop"
    /\ idx <= Len(urls)
    /\ \E i \in Requests : tpc[i] = "sleep"

\* C2: with overwrite off, any two requests of the run that have picked
\* their output paths have picked different paths.
C2_PathsDistinct ==
    ~overwrite =>
        \A i, j \in Requests :
            (i # j /\ path[i] # NoPath /\ path[j] # NoPath) => path[i] # path[j]

\* C3: with a concurrency limit of at least 1, no request is ever reported
\* more than once, and when main returns every request has been reported
\* exactly once.
C3_ExactlyOneReport ==
    concurrency >= 1 =>
        /\ \A i \in Requests : Len(reports[i]) <= 1
        /\ mainpc = "done" => \A i \in Requests : Len(reports[i]) = 1

\* the kind of outcome the transport's results for request i call for
OwnOutcomeKind(i) ==
    IF ~Valid(i) THEN "invalid"
    ELSE IF plan[i] \in 1..MaxAttempts(retries) THEN "saved"
    ELSE "failed"

\* the outcome request i has when nothing but its own transfer results
\* decides it: its path is picked in the directory as it was before the run
OwnOutcome(i) ==
    IF ~Valid(i) THEN [kind |-> "invalid", url |-> urls[i]]
    ELSE IF plan[i] \in 1..MaxAttempts(retries)
         THEN [kind |-> "saved",
               path |-> pick_output_path(fs0, file_name_from_url(urls[i]), overwrite)]
         ELSE [kind |-> "failed", url |-> urls[i], err |-> MaxAttempts(retries)]

\* C4 as stated: when main returns after some request failed for good, every
\* other request has concluded with exactly one outcome, and that outcome is
\* the one its own transfer results alone call for.
C4_OutcomeFromOwnResultsOnly ==
    mainpc = "done" =>
        \A i, j \in Requests :
            (i # j /\ FailedOut(i)) =>
                /\ tpc[j] = "done"
                /\ reports[j] = <<OwnOutcome(j)>>

\* C4 as amended: when main returns after some request failed for good,
\* every other request has concluded with exactly one outcome, of the kind
\* (invalid, failed, saved) its own transfer results call for; the path of a
\* saved request is left to what the directory held when it was picked.
C4_FailureIsolated ==
    mainpc = "done" =>
        \A i, j \in Requests :
            (i # j /\ FailedOut(i)) =>
                /\ tpc[j] = "done"
                /\ Len(reports[j]) = 1
                /\ reports[j][1].kind = OwnOutcomeKind(j)
                /\ reports[j][1].kind = "failed" => reports[j][1] = OwnOutcome(j)

\* C4 witness: main has returned from a run in which one request failed
\* for good and another was saved after a retry.
C4_SavedBesideFailure ==
    /\ mainpc = "done"
    /\ \E i, j \in Requests :
        i # j /\ FailedOut(i) /\ Saved(j) /\ Len(sleeps[j]) >= 1

\* C5: a task works only while it holds its permit, which it got before
\* parsing, path picking or any attempt; once it has concluded, on whatever
\* path, it has released the permit exactly once; when main returns all
\* permits are free.
C5_PermitAcquiredFirstReleasedOnce ==
    /\ \A i \in Requests :
        /\ tpc[i] = "unspawned" =>
            /\ ~permit[i] /\ released[i] = 0
            /\ path[i] = NoPath /\ invoked[i] = 0 /\ reports[i] = <<>>
        /\ Working(i) => permit[i] /\ released[i] = 0
        /\ Concluded(i) => ~permit[i] /\ released[i] = 1
    /\ mainpc = "done" => sem = concurrency

\* C5 witness: main has returned from a run in which one request was
\* rejected as invalid, one was saved and one failed after its retries.
C5_AllExitPathsTaken ==
    /\ mainpc = "done"
    /\ \E i \in Requests : InvalidOut(i)
    /\ \E i \in Requests : Saved(i)
    /\ \E i \in Requests : FailedOut(i) /\ Len(sleeps[i]) >= 1

\* C6: when main returns, every request's task has finished: none is in an
\* attempt, asleep in backoff, or holding a permit.
C6_ReturnsAfterAllTasks ==
    mainpc = "done" =>
        \A i \in Requests : Concluded(i) /\ ~Working(i) /\ ~permit[i]

\* C6 witness: main has returned from a run of two or more requests one of
\* which went through a backoff sleep.
C6_ReturnedAfterBackoff ==
    /\ mainpc = "done"
    /\ Len(urls) >= 2
    /\ \E i \in Requests : Len(sleeps[i]) >= 1

\* C7: a request whose transport first succeeds on attempt k, k within the
\* attempts allowed, never sees more than k calls of download_once and
\* concludes saved after exactly k calls and k - 1 sleeps.
C7_SuccessOnAttemptK ==
    \A i \in Requests :
        (Valid(i) /\ plan[i] \in 1..MaxAttempts(retries)) =>
            /\ invoked[i] <= plan[i]
            /\ Concluded(i) =>
                /\ Saved(i)
                /\ invoked[i] = plan[i]
                /\ Len(sleeps[i]) = plan[i] - 1

\* C8: a request whose transport never succeeds concludes after exactly m
\* calls of download_once and m - 1 sleeps, m the attempts allowed, with the
\* error of attempt m.
C8_ExhaustedAfterM ==
    \A i \in Requests :
        (Valid(i) /\ plan[i] = 0 /\ Concluded(i)) =>
            /\ invoked[i] = MaxAttempts(retries)
            /\ Len(sleeps[i]) = MaxAttempts(retries) - 1
            /\ reports[i] = <<[kind |-> "failed", url |-> urls[i],
                               err |-> MaxAttempts(retries)]>>

\* backoff_ms * 2^(n-1) as a number, whatever its size
ExactDelay(base, n) ==
    IF base.m = 0 THEN U64Zero ELSE [m |-> base.m, e |-> base.e + (n - 1)]

\* C9: no task is aborted by the delay computation, and the n-th sleep of a
\* request lasts exactly backoff_ms * 2^(n-1).
C9_DelayExact ==
    \A i \in Requests :
        /\ tpc[i] # "panicked"
        /\ \A n \in 1..Len(sleeps[i]) : sleeps[i][n] = ExactDelay(backoff_ms, n)

\* C10: with a concurrency limit of zero the run ends with an error before
\* the admission loop, where it would wait for a permit that never comes.
C10_ZeroLimitIsFatal ==
    concurrency = 0 => mainpc \in {"start", "exit2", "fatal"}

\* main is at sem.acquire_owned() with a request to admit
MainAtGate == mainpc = "loop" /\ idx <= Len(urls)

\* the steps of the task of request i
TaskStep(i) ==
    \/ TaskInvalidUrl(i) \/ TaskResolve(i)
    \/ RequestFails(i) \/ BadStatus(i) \/ SendOk(i)
    \/ CreateFails(i) \/ CreateOk(i)
    \/ WriteChunk(i) \/ StreamFails(i) \/ StreamOk(i)
    \/ Wake(i)

\* C11 as stated: with a limit of at least 1, main never waits at the gate
\* while a request that holds a permit is asleep in backoff between retries.
C11_BackoffNeverDelaysAdmission ==
    concurrency >= 1 =>
        ~(MainAtGate /\ ~ENABLED AcquireAndSpawn
          /\ \E i \in Requests : tpc[i] = "sleep" /\ permit[i])

\* C11 as amended: a task that sleeps in backoff or waits for data never
\* stops an admitted task from taking its next step; it keeps its permit,
\* and main waits at the gate only while every permit of the limit is held
\* by a task that has not concluded.
C11_OnlyFullGateDelaysAdmission ==
    concurrency >= 1 =>
        /\ \A j \in Requests : Working(j) => ENABLED TaskStep(j)
        /\ (MainAtGate /\ ~ENABLED AcquireAndSpawn) =>
              /\ Cardinality(HeldPermits) = concurrency
              /\ \A i \in HeldPermits : Working(i)

\* C11 witness: with a limit of 1 main waits at the gate for the second
\* request while the first sleeps before its second attempt.
C11_WaitingBehindBackoff ==
    /\ concurrency = 1
    /\ MainAtGate
    /\ ~ENABLED AcquireAndSpawn
    /\ \E i \in Requests : tpc[i] = "sleep" /\ attempt[i] = 1 /\ permit[i]

\* the exit status of the process once main is over
ExitStatus ==
    IF mainpc = "done" THEN 0 ELSE IF mainpc = "exit2" THEN 2 ELSE 1

\* C12: when main returns from a run in which some request ended invalid or
\* failed, the exit status differs from 0, the status of a run in which
\* every request was saved.
C12_StatusReflectsFailure ==
    (mainpc = "done" /\ \E i \in Requests : InvalidOut(i) \/ FailedOut(i))
        => ExitStatus # 0

\* the file name request i asks for
BaseOf(i) == file_name_from_url(urls[i])

\* the step in which the output path of request i is picked
Resolves(i) == path[i] = NoPath /\ path'[i] # NoPath

\* C13: whenever a path is picked with overwrite off for a name that exists,
\* it is the numbered candidate "stem (k).ext" of the least k >= 1 whose
\* candidate does not exist: all candidates below k exist and the picked
\* path does not exist at that time.
C13_LeastFreeCandidate ==
    [][\A i \in Requests :
        (Resolves(i) /\ ~overwrite /\ BaseOf(i) \in fs) =>
            \E k \in 1..(Cardinality(fs) + 1) :
                /\ path'[i] = Candidate(BaseOf(i), k)
                /\ path'[i] \notin fs
                /\ \A j \in 1..(k - 1) : Candidate(BaseOf(i), j) \in fs]_vars

\* C13 witness: a.txt existed before the run, and with overwrite off a
\* request for a.txt got "a (2).txt", "a (1).txt" being taken by then.
C13_SecondCandidatePicked ==
    /\ ~overwrite
    /\ NameATxt \in fs0
    /\ <<"a", " ", "(", "1", ")", ".", "t", "x", "t">> \in fs
    /\ \E i \in Requests : path[i] = <<"a", " ", "(", "2", ")", ".", "t", "x", "t">>

\* C14: whenever a path is picked, it is the requested name itself if
\* overwrite is on or no file of that name exists; otherwise it is another
\* path, one that does not exist.
C14_NameKeptOrAvoided ==
    [][\A i \in Requests :
        Resolves(i) =>
            IF overwrite \/ BaseOf(i) \notin fs
            THEN path'[i] = BaseOf(i)
            ELSE path'[i] # BaseOf(i) /\ path'[i] \notin fs]_vars

\* C14 witness: with overwrite on, a request for the existing file
\* "download" got that very path; the file was there before the run.
C14_OverwriteKeepsName ==
    /\ overwrite
    /\ NameDownload \in fs0
    /\ \E i \in Requests : urls[i] = UrlRoot /\ path[i] = NameDownload

\* a request with a malformed URL never gets a path, an attempt, an error
\* of a transfer or a sleep, and concludes with the single report "invalid"
InvalidUrlDoesNoWork ==
    \A i \in Requests :
        ~Valid(i) =>
            /\ tpc[i] \in {"unspawned", "spawned", "done"}
            /\ path[i] = NoPath /\ attempt[i] = 0 /\ invoked[i] = 0
            /\ last_err[i] = NoErr /\ sleeps[i] = <<>>
            /\ tpc[i] = "done" => reports[i] = <<[kind |-> "invalid", url |-> urls[i]]>>

\* C15: a request with a malformed URL fails fast, doing none of the work
\* of a transfer, and when main returns from a run with such a request every
\* other request has exactly one outcome, of the kind its own transfer
\* results call for.
C15_InvalidUrlFailsFast ==
    /\ InvalidUrlDoesNoWork
    /\ mainpc = "done" =>
        \A i, j \in Requests :
            (~Valid(i) /\ j # i) =>
                /\ Len(reports[j]) = 1
                /\ reports[j][1].kind = OwnOutcomeKind(j)

\* C16: with --retries 0 a request with a valid URL calls download_once
\* exactly once, never sleeps, and concludes with the result of that call:
\* saved if it succeeded, failed with the error of attempt 1 if not.
C16_ZeroRetriesAttemptsOnce ==
    retries = 0 =>
        \A i \in Requests :
            Valid(i) =>
                /\ invoked[i] <= 1
                /\ sleeps[i] = <<>>
                /\ Concluded(i) =>
                    /\ invoked[i] = 1
                    /\ reports[i] =
                        IF plan[i] = 1
                        THEN <<[kind |-> "saved", path |-> path[i]]>>
                        ELSE <<[kind |-> "failed", url |-> urls[i], err |-> 1]>>

\* C16 witness: main has returned from a run with --retries 0 in which one
\* request was saved by its only attempt and another failed on its only
\* attempt.
C16_OneAttemptEach ==
    /\ retries = 0
    /\ mainpc = "done"
    /\ \E i, j \in Requests :
        /\ Saved(i) /\ invoked[i] = 1
        /\ FailedOut(j) /\ invoked[j] = 1 /\ last_err[j] = 1

\* C17: the path of a request is set in one step only, taken while the task
\* holds its permit and before its first call of download_once, and no
\* later step, a retry included, changes it.
C17_PathPickedOnce ==
    [][\A i \in Requests :
        /\ path[i] # NoPath => path'[i] = path[i]
        /\ path'[i] # path[i] =>
              /\ permit[i] /\ tpc[i] = "spawned"
              /\ invoked[i] = 0 /\ attempt[i] = 0]_vars

\* C17 witness: a request is in its second or a later attempt with the path
\* it picked at the start, although picking now would give another path
\* because the directory has changed since.
C17_RetryKeepsStalePath ==
    \E i \in Requests :
        /\ attempt[i] >= 2
        /\ tpc[i] \in {"send", "create", "stream"}
        /\ path[i] # pick_output_path(fs, BaseOf(i), overwrite)

\* the body of attempt a of request i as file content
Body(i, a) == [k \in 1..BodyChunks(urls[i]) |-> Chunk(i, a, k)]

\* the step in which request i prints "saved"
ReportsSaved(i) ==
    /\ reports[i] = <<>>
    /\ reports'[i] # <<>>
    /\ reports'[i][1].kind = "saved"

\* C18: when a request reports "saved", its stream was consumed to the end
\* and its file holds exactly the chunks of the body of that attempt, in
\* stream order, and nothing else.
C18_SavedFileHoldsBody ==
    [][\A i \in Requests :
        ReportsSaved(i) =>
            /\ off[i] = BodyChunks(urls[i])
            /\ path[i] \in fs
            /\ content[path[i]] = Body(i, attempt[i])]_vars

\* request i is between its call of pick_output_path and its end
InFlight(i) == tpc[i] \in {"send", "create", "stream", "sleep"}

C20_EarlyFailureLeavesFiles ==
    [][/\ \A i \in Requests :
            (RequestFails(i) \/ BadStatus(i)) => (fs' = fs /\ content' = content)
       /\ \A i \in Requests :
            (tpc[i] # "create" /\ tpc'[i] = "create") => SendOk(i)
       /\ <<fs, content>>' # <<fs, content>> =>
            \E i \in Requests :
                /\ CreateOk(i) \/ WriteChunk(i)
                /\ \A f \in fs : f # path[i] => (f \in fs' /\ content'[f] = content[f])]_vars

\* C20 witness: with --overwrite the one request of the run, for a file
\* that exists before the run, has failed for good after two or more
\* attempts, and the file has the content it had before the run: no
\* attempt got as far as File::create, which would have emptied it.
C20_FailedRunKeptOldFile ==
    /\ overwrite /\ Len(urls) = 1 /\ mainpc = "done"
    /\ BaseOf(1) \in fs0 /\ path[1] = BaseOf(1)
    /\ FailedOut(1) /\ invoked[1] >= 2
    /\ fs = fs0
    /\ content[path[1]] = PriorContent

====
